---- MODULE Spec2Model ----
(***************************************************************************)
(* A model of kmodules.xyz/objectstore-api, package pkg/blob (blob.go):    *)
(* the storage facade Blob over a flat key/value bucket.                   *)
(*                                                                         *)
(* Strings that the code takes apart (paths, prefixes, keys) are sequences *)
(* of one-character strings, so that path.Split, path.Join, path.Clean and *)
(* strings.Trim are computed as the Go library computes them.  A pointer   *)
(* that may be nil is a sequence of length 0 (nil) or 1.                   *)
(***************************************************************************)
EXTENDS Integers, Sequences, FiniteSets, TLC

VARIABLES
    buckets,   \* location -> (physical key -> content): the object stores
    blobs,     \* facade name -> Blob struct (blob.go:66-71)
    env,       \* the process environment and the credential file
    markers,   \* history: the markers SetPathAsDir wrote that still exist
    last       \* the operation that returned last, its arguments and result

vars == <<buckets, blobs, env, markers, last>>

----------------------------------------------------------------------------
(* Strings                                                                 *)

Slash == "/"
Dot == "."

\* The byte value of a character: keys are listed in ascending byte order.
Ord(c) ==
    CASE c = "." -> 46
      [] c = "/" -> 47
      [] c = "a" -> 97
      [] c = "b" -> 98
      [] c = "d" -> 100
      [] c = "e" -> 101
      [] c = "f" -> 102
      [] OTHER -> 255

\* s < t in the byte-wise lexicographic order of strings: at the first
\* place where they differ s has ended or holds the smaller byte.
StrLess(s, t) ==
    \E i \in 1..Len(t) :
        /\ i <= Len(s) + 1
        /\ \A j \in 1..(i - 1) : s[j] = t[j]
        /\ i = Len(s) + 1 \/ Ord(s[i]) < Ord(t[i])

\* strings.HasPrefix
HasPrefix(s, p) ==
    /\ Len(p) <= Len(s)
    /\ SubSeq(s, 1, Len(p)) = p

\* strings.HasSuffix
HasSuffix(s, x) ==
    /\ Len(x) <= Len(s)
    /\ SubSeq(s, Len(s) - Len(x) + 1, Len(s)) = x

\* s[n:] in Go: the string without its first n characters.
Drop(s, n) == SubSeq(s, n + 1, Len(s))

\* strings.TrimSuffix(s, "/")
TrimSuffix(s) ==
    IF HasSuffix(s, <<Slash>>) THEN SubSeq(s, 1, Len(s) - 1) ELSE s

\* strings.Trim(s, "/"): from the first to the last character that is no slash.
Trim(s) ==
    LET keep == {i \in 1..Len(s) : s[i] # Slash}
    IN  IF keep = {} THEN <<>>
        ELSE SubSeq(s, CHOOSE i \in keep : \A j \in keep : i <= j,
                       CHOOSE i \in keep : \A j \in keep : j <= i)

\* strings.LastIndex(s, "/") + 1: the length of the part up to the last slash.
LastSlash(s) ==
    LET at == {i \in 1..Len(s) : s[i] = Slash}
    IN  IF at = {} THEN 0 ELSE CHOOSE i \in at : \A j \in at : j <= i

\* path.Split: <<dir, file>>, cut after the last slash.
PathSplit(p) ==
    <<SubSeq(p, 1, LastSlash(p)), Drop(p, LastSlash(p))>>

\* The place of the n-th slash of s; 0 before the first, Len(s) + 1 after the last.
SlashAt(s, n) ==
    LET at == {i \in 1..Len(s) : s[i] = Slash}
    IN  IF n = 0 THEN 0
        ELSE IF n > Cardinality(at) THEN Len(s) + 1
        ELSE CHOOSE i \in at : Cardinality({j \in at : j <= i}) = n

\* The segments of a string between its slashes.
Segments(s) ==
    [n \in 1..(Cardinality({i \in 1..Len(s) : s[i] = Slash}) + 1) |->
        SubSeq(s, SlashAt(s, n - 1) + 1, SlashAt(s, n) - 1)]

\* One step of path.Clean: "" and "." are dropped, ".." removes the segment
\* before it, is dropped at the root and is kept otherwise.
CleanStep(seg, out, rooted) ==
    IF seg = <<>> \/ seg = <<Dot>> THEN out
    ELSE IF seg = <<Dot, Dot>>
    THEN IF out # <<>> /\ out[Len(out)] # <<Dot, Dot>>
         THEN SubSeq(out, 1, Len(out) - 1)
         ELSE IF rooted THEN out
         ELSE Append(out, seg)
    ELSE Append(out, seg)

\* path.Clean's pass over the segments from the i-th on.  (The segments
\* kept so far are bound as a value before the next step uses them.)
RECURSIVE CleanSegs(_, _, _, _)
CleanSegs(segs, i, out, rooted) ==
    IF i > Len(segs) THEN out
    ELSE CHOOSE r \in {CleanSegs(segs, i + 1, nxt, rooted) :
                          nxt \in {CleanStep(segs[i], out, rooted)}} : TRUE

\* The segments joined by slashes.
JoinSlash(segs) ==
    LET RECURSIVE Upto(_)
        Upto(n) == IF n = 0 THEN <<>>
                   ELSE IF n = 1 THEN segs[1]
                   ELSE Upto(n - 1) \o <<Slash>> \o segs[n]
    IN  Upto(Len(segs))

\* path.Clean
Clean(p) ==
    IF p = <<>> THEN <<Dot>>
    ELSE CHOOSE r \in
           {IF Head(p) = Slash THEN <<Slash>> \o JoinSlash(kept)
            ELSE IF kept = <<>> THEN <<Dot>>
            ELSE JoinSlash(kept) :
               kept \in {CHOOSE c \in {CleanSegs(segs, 1, <<>>, Head(p) = Slash) :
                                          segs \in {Segments(p)}} : TRUE}} : TRUE

\* path.Join of two elements: empty elements are ignored, the rest is cleaned.
PathJoin(a, b) ==
    IF a = <<>> /\ b = <<>> THEN <<>>
    ELSE IF a = <<>> THEN Clean(b)
    ELSE IF b = <<>> THEN Clean(a)
    ELSE Clean(a \o <<Slash>> \o b)

\* The elements of a set of strings in ascending order.
SortKeys(S) ==
    [i \in 1..Cardinality(S) |->
        CHOOSE x \in S : Cardinality({y \in S : StrLess(y, x)}) = i - 1]

----------------------------------------------------------------------------
(* Values                                                                  *)

\* A nil pointer, and a pointer to x.
Nil == <<>>
Some(x) == <<x>>

\* error values: nil, or an error of a kind, with the words of its message
\* and, for an aggregate, the kinds of the errors it holds.
NoErr == [kind |-> "nil", detail |-> <<>>, errs |-> <<>>]
Err(k) == [kind |-> k, detail |-> <<>>, errs |-> <<>>]
ErrMsg(k, d) == [kind |-> k, detail |-> d, errs |-> <<>>]

\* The run-time panic of a nil pointer dereference: the call does not return.
Panic == Err("panic")

\* gcerrors.NotFound, the code the tests classify with isNotFound.
NotFound == Err("NotFound")

\* errors.NewAggregate: nil for an empty list.
NewAggregate(list) ==
    IF list = <<>> THEN NoErr
    ELSE [kind |-> "aggregate", detail |-> <<>>, errs |-> list]

\* The constants of blob.go.
gcsPrefix == "gs://"
azurePrefix == "azblob://"
localPrefix == "file:///"
credentialsDir == "/tmp/credentials"
azureStorageAccount == "AZURE_STORAGE_ACCOUNT"
azureStorageKey == "AZURE_ACCOUNT_KEY"
googleServiceAccountJsonKey == "GOOGLE_SERVICE_ACCOUNT_JSON_KEY"
googleApplicationCredentials == "GOOGLE_APPLICATION_CREDENTIALS"
azureAccountKey == "AZURE_ACCOUNT_KEY"
azureAccountName == "AZURE_ACCOUNT_NAME"
caCertData == "CA_CERT_DATA"
awsAccessKeyId == "AWS_ACCESS_KEY_ID"
awsSecretAccessKey == "AWS_SECRET_ACCESS_KEY"

ProviderLocal == "local"
ProviderS3 == "s3"
ProviderGCS == "gcs"
ProviderAzure == "azure"
ProviderSwift == "swift"
ProviderB2 == "b2"
ProviderRest == "rest"

----------------------------------------------------------------------------
(* The backend descriptor and the facade's construction                    *)

\* api.Backend with no variant populated.
EmptyBackend ==
    [StorageSecretName |-> "", Local |-> Nil, S3 |-> Nil, GCS |-> Nil,
     Azure |-> Nil, Swift |-> Nil, B2 |-> Nil, Rest |-> Nil]

\* The kinds of the variants that are populated.
Populated(backend) ==
    {k \in {ProviderLocal, ProviderS3, ProviderGCS, ProviderAzure,
            ProviderSwift, ProviderB2, ProviderRest} :
        \/ k = ProviderLocal /\ backend.Local # Nil
        \/ k = ProviderS3 /\ backend.S3 # Nil
        \/ k = ProviderGCS /\ backend.GCS # Nil
        \/ k = ProviderAzure /\ backend.Azure # Nil
        \/ k = ProviderSwift /\ backend.Swift # Nil
        \/ k = ProviderB2 /\ backend.B2 # Nil
        \/ k = ProviderRest /\ backend.Rest # Nil}

\* Backend.Provider: the kind of the one populated variant; an error when
\* none or more than one is populated.
Provider(backend) ==
    IF Cardinality(Populated(backend)) = 1
    THEN [val |-> CHOOSE k \in Populated(backend) : TRUE, err |-> NoErr]
    ELSE [val |-> "", err |-> Err("unknown provider")]

\* The zero value of the Blob struct.
ZeroBlob == [prefix |-> <<>>, storageURL |-> <<>>, secret |-> Nil, bConfig |-> Nil]

\* The environment of a fresh process: no variable set, no credential file.
EmptyEnv == [vars |-> <<>>, files |-> <<>>]

\* A function as a sequence of <<name, value>> pairs: name is set to value.
Put(pairs, name, value) ==
    Append(SelectSeq(pairs, LAMBDA p : p[1] # name), <<name, value>>)

\* os.Setenv
Setenv(e, name, value) == [e EXCEPT !.vars = Put(e.vars, name, value)]

\* writeDataIntoFile
writeDataIntoFile(e, filePath, val) == [e EXCEPT !.files = Put(e.files, filePath, val)]

\* getStorageSecret: the secret of that name, or the client's error.
getStorageSecret(c, namespace, name) ==
    LET found == {s \in c : s.Namespace = namespace /\ s.Name = name}
    IN  IF found = {} THEN [secret |-> Nil, err |-> Err("secret not found")]
        ELSE [secret |-> Some(CHOOSE s \in found : TRUE), err |-> NoErr]

\* secret.Data[key] is present.
HasData(secret, key) == \E i \in 1..Len(secret.Data) : secret.Data[i][1] = key

\* secret.Data[key]; the empty value when the key is absent.
DataOf(secret, key) ==
    IF HasData(secret, key)
    THEN (secret.Data[CHOOSE i \in 1..Len(secret.Data) : secret.Data[i][1] = key])[2]
    ELSE ""

\* setGcsCredentialsToEnv
setGcsCredentialsToEnv(e, secret) ==
    IF ~HasData(secret, googleServiceAccountJsonKey)
    THEN [err |-> ErrMsg("config", <<"storage secret missing", googleServiceAccountJsonKey>>),
          env |-> e]
    ELSE LET filePath == <<credentialsDir, googleServiceAccountJsonKey>>
         IN  [err |-> NoErr,
              env |-> Setenv(writeDataIntoFile(e, filePath,
                                 DataOf(secret, googleServiceAccountJsonKey)),
                             googleApplicationCredentials, filePath)]

\* setAzureCredentialsToEnv: the key is set before the name is looked up.
setAzureCredentialsToEnv(e, secret) ==
    IF ~HasData(secret, azureAccountKey)
    THEN [err |-> ErrMsg("config", <<"storage secret missing", azureAccountKey>>), env |-> e]
    ELSE LET e1 == Setenv(e, azureStorageKey, DataOf(secret, azureAccountKey))
         IN  IF ~HasData(secret, azureAccountName)
             THEN [err |-> ErrMsg("config", <<"storage secret missing", azureAccountName>>),
                   env |-> e1]
             ELSE [err |-> NoErr,
                   env |-> Setenv(e1, azureStorageAccount, DataOf(secret, azureAccountName))]

s3Blob(secret, bConfig) ==
    [ZeroBlob EXCEPT !.secret = secret,
                     !.bConfig = Some(bConfig),
                     !.prefix = bConfig.S3[1].Prefix]

gcsBlob(e, secret, bConfig) ==
    LET set == IF secret # Nil THEN setGcsCredentialsToEnv(e, secret[1])
               ELSE [err |-> NoErr, env |-> e]
    IN  IF set.err # NoErr THEN [blob |-> Nil, err |-> set.err, env |-> set.env]
        ELSE [blob |-> Some([ZeroBlob EXCEPT !.bConfig = Some(bConfig),
                                             !.prefix = bConfig.GCS[1].Prefix,
                                             !.storageURL = <<gcsPrefix, bConfig.GCS[1].Bucket>>]),
              err |-> NoErr, env |-> set.env]

\* azureBlob: the struct it returns has no bConfig.
azureBlob(e, secret, bConfig) ==
    LET set == IF secret # Nil THEN setAzureCredentialsToEnv(e, secret[1])
               ELSE [err |-> NoErr, env |-> e]
    IN  IF set.err # NoErr THEN [blob |-> Nil, err |-> set.err, env |-> set.env]
        ELSE [blob |-> Some([ZeroBlob EXCEPT !.prefix = bConfig.Azure[1].Prefix,
                                             !.storageURL = <<azurePrefix, bConfig.Azure[1].Container>>]),
              err |-> NoErr, env |-> set.env]

\* localBlob: the struct it returns has no bConfig and no prefix.
localBlob(e, bConfig) ==
    [blob |-> Some([ZeroBlob EXCEPT !.storageURL =
                        <<localPrefix, bConfig.Local[1].MountPath, "?no_tmp_dir=true">>]),
     err |-> NoErr, env |-> e]

\* A NewBlob that fetches the secret before it resolves the provider.
NewBlobMutant(c, namespace, bConfig, e) ==
    LET p == Provider(bConfig)
        got == IF bConfig.StorageSecretName # ""
               THEN getStorageSecret(c, namespace, bConfig.StorageSecretName)
               ELSE [secret |-> Nil, err |-> NoErr]
    IN  IF got.err # NoErr THEN [blob |-> Nil, err |-> got.err, env |-> e]
        ELSE IF p.err # NoErr THEN [blob |-> Nil, err |-> p.err, env |-> e]
        ELSE IF p.val = ProviderS3
        THEN [blob |-> Some(s3Blob(got.secret, bConfig)), err |-> NoErr, env |-> e]
        ELSE IF p.val = ProviderGCS THEN gcsBlob(e, got.secret, bConfig)
        ELSE IF p.val = ProviderAzure THEN azureBlob(e, got.secret, bConfig)
        ELSE IF p.val = ProviderLocal THEN localBlob(e, bConfig)
        ELSE [blob |-> Nil, err |-> ErrMsg("unknown provider", <<p.val>>), env |-> e]

\* NewBlob: the facade, the error and the environment it leaves.
NewBlob(c, namespace, bConfig, e) ==
    LET p == Provider(bConfig)
        got == IF bConfig.StorageSecretName # ""
               THEN getStorageSecret(c, namespace, bConfig.StorageSecretName)
               ELSE [secret |-> Nil, err |-> NoErr]
    IN  IF p.err # NoErr THEN [blob |-> Nil, err |-> p.err, env |-> e]
        ELSE IF got.err # NoErr THEN [blob |-> Nil, err |-> got.err, env |-> e]
        ELSE IF p.val = ProviderS3
        THEN [blob |-> Some(s3Blob(got.secret, bConfig)), err |-> NoErr, env |-> e]
        ELSE IF p.val = ProviderGCS THEN gcsBlob(e, got.secret, bConfig)
        ELSE IF p.val = ProviderAzure THEN azureBlob(e, got.secret, bConfig)
        ELSE IF p.val = ProviderLocal THEN localBlob(e, bConfig)
        ELSE [blob |-> Nil, err |-> ErrMsg("unknown provider", <<p.val>>), env |-> e]

----------------------------------------------------------------------------
(* The bucket: gocloud.dev/blob as blob.go uses it.  A handle is a         *)
(* location and the prefix that blob.PrefixedBucket puts before every key. *)

\* The objects of the store a handle is open on.
StoreOf(bs, h) == bs[h.loc]

\* The physical key a handle's key stands for.
PhysKey(h, key) == h.pfx \o key

\* bucket.Exists
BucketExists(bs, h, key) == PhysKey(h, key) \in DOMAIN StoreOf(bs, h)

\* bucket.NewReader and io.ReadAll: NotFound for a key that is absent.
BucketRead(bs, h, key) ==
    IF BucketExists(bs, h, key)
    THEN [val |-> StoreOf(bs, h)[PhysKey(h, key)].data, err |-> NoErr]
    ELSE [val |-> <<>>, err |-> NotFound]

\* bucket.NewWriter, Write and Close: the object is created or replaced.
BucketWrite(bs, h, key, data, contentType) ==
    LET st == StoreOf(bs, h)
        obj == [data |-> data, contentType |-> contentType]
    IN  [bs EXCEPT ![h.loc] =
            [k \in DOMAIN st \cup {PhysKey(h, key)} |->
                IF k = PhysKey(h, key) THEN obj ELSE st[k]]]

\* bucket.Delete: NotFound for a key that is absent.
BucketDelete(bs, h, key) ==
    LET st == StoreOf(bs, h)
    IN  IF BucketExists(bs, h, key)
        THEN [bs |-> [bs EXCEPT ![h.loc] =
                        [k \in DOMAIN st \ {PhysKey(h, key)} |-> st[k]]],
              err |-> NoErr]
        ELSE [bs |-> bs, err |-> NotFound]

\* One entry of a listing with a delimiter: a key that has the delimiter
\* after the prefix is folded into the directory it lies in.
ListEntry(rel, prefix) ==
    LET rest == Drop(rel, Len(prefix))
        at == {i \in 1..Len(rest) : rest[i] = Slash}
    IN  IF at = {} THEN [Key |-> rel, IsDir |-> FALSE]
        ELSE [Key |-> prefix \o SubSeq(rest, 1, CHOOSE i \in at : \A j \in at : i <= j),
              IsDir |-> TRUE]

\* bucket.List and the iterator's Next up to io.EOF: the entries under the
\* prefix in ascending key order, keys relative to the handle; flat when the
\* delimiter is empty (bucket.List(nil)), one level when it is "/".
BucketList(bs, h, prefix, delimiter) ==
    LET under == {k \in DOMAIN StoreOf(bs, h) : HasPrefix(k, PhysKey(h, prefix))}
        rels == {Drop(k, Len(h.pfx)) : k \in under}
        entries == IF delimiter = <<>>
                   THEN {[Key |-> r, IsDir |-> FALSE] : r \in rels}
                   ELSE {ListEntry(r, prefix) : r \in rels}
        keys == SortKeys({e.Key : e \in entries})
    IN  [i \in 1..Len(keys) |-> CHOOSE e \in entries : e.Key = keys[i]]

----------------------------------------------------------------------------
(* The bucket factory                                                      *)

\* configureTLS: fails when the CA data holds no certificate.
configureTLS(caCert, insecureTLS) ==
    IF caCert # "" /\ caCert # "pem"
    THEN [client |-> <<>>, err |-> ErrMsg("config", <<"failed to parse CA certificate">>)]
    ELSE [client |-> <<"tls", caCert, insecureTLS>>, err |-> NoErr]

\* A getS3Config that does not look whether the secret holds the keys.
getS3ConfigMutant(b, debug) ==
    LET s3 == b.bConfig[1].S3[1]
        o2 == IF s3.Region # "" THEN << <<"WithRegion", s3.Region>> >> ELSE <<>>
    IN  IF b.secret = Nil THEN [cfg |-> o2, err |-> NoErr]
        ELSE [cfg |-> o2 \o << <<"WithCredentialsProvider",
                                 DataOf(b.secret[1], awsAccessKeyId),
                                 DataOf(b.secret[1], awsSecretAccessKey)>> >>,
              err |-> NoErr]

\* getS3Config: the load options handed to config.LoadDefaultConfig.
getS3Config(b, debug) ==
    LET s3 == b.bConfig[1].S3[1]
        o1 == IF b.secret # Nil /\ s3.Endpoint # ""
              THEN << <<"WithBaseEndpoint", s3.Endpoint>> >> ELSE <<>>
        o2 == IF s3.Region # "" THEN << <<"WithRegion", s3.Region>> >> ELSE <<>>
        o3 == IF debug THEN << <<"WithClientLogMode", "retries|request|response">> >> ELSE <<>>
        opts == o1 \o o2 \o o3
    IN  IF b.secret = Nil THEN [cfg |-> opts, err |-> NoErr]
        ELSE LET secret == b.secret[1]
                 needsTLS == s3.InsecureTLS \/ DataOf(secret, caCertData) # ""
                 tls == configureTLS(DataOf(secret, caCertData), s3.InsecureTLS)
                 o4 == << <<"WithCredentialsProvider", DataOf(secret, awsAccessKeyId),
                                                       DataOf(secret, awsSecretAccessKey)>> >>
             IN  IF ~HasData(secret, awsAccessKeyId)
                 THEN [cfg |-> <<>>,
                       err |-> ErrMsg("config", <<"storage secret", secret.Namespace,
                                                  secret.Name, "missing", awsAccessKeyId>>)]
                 ELSE IF ~HasData(secret, awsSecretAccessKey)
                 THEN [cfg |-> <<>>,
                       err |-> ErrMsg("config", <<"storage Secret", secret.Namespace,
                                                  secret.Name, "missing", awsSecretAccessKey>>)]
                 ELSE IF needsTLS /\ tls.err # NoErr THEN [cfg |-> <<>>, err |-> tls.err]
                 ELSE IF needsTLS
                 THEN [cfg |-> opts \o o4 \o << <<"WithHTTPClient", "tls">> >>, err |-> NoErr]
                 ELSE [cfg |-> opts \o o4, err |-> NoErr]

\* No bucket: what a failed open returns.
NoHandle == [loc |-> <<>>, pfx |-> <<>>]

\* An openBucketWithDebug that puts join(prefix, dir) and a separator
\* before every key, untrimmed and at the root too.
openBucketWithDebugMutant(b, dir, debug) ==
    IF b.bConfig = Nil THEN [h |-> NoHandle, err |-> Panic]
    ELSE [h |-> [loc |-> IF b.bConfig[1].S3 # Nil THEN <<"s3", b.bConfig[1].S3[1].Bucket>>
                         ELSE b.storageURL,
                 pfx |-> PathJoin(b.prefix, dir) \o <<Slash>>],
          err |-> NoErr]

\* openBucketWithDebug.  b.bConfig.Provider() dereferences b.bConfig: on a
\* facade without descriptor the call panics.  The handle is the raw bucket
\* when join(prefix, dir) trims to nothing, the prefixed bucket otherwise.
openBucketWithDebug(b, dir, debug) ==
    IF b.bConfig = Nil THEN [h |-> NoHandle, err |-> Panic]
    ELSE LET p == Provider(b.bConfig[1])
             cfg == getS3Config(b, debug)
             suffix == Trim(PathJoin(b.prefix, dir)) \o <<Slash>>
             loc == IF p.val = ProviderS3 THEN <<"s3", b.bConfig[1].S3[1].Bucket>>
                    ELSE b.storageURL
         IN  IF p.err # NoErr THEN [h |-> NoHandle, err |-> p.err]
             ELSE IF p.val = ProviderS3 /\ cfg.err # NoErr THEN [h |-> NoHandle, err |-> cfg.err]
             ELSE IF suffix = <<Slash>> THEN [h |-> [loc |-> loc, pfx |-> <<>>], err |-> NoErr]
             ELSE [h |-> [loc |-> loc, pfx |-> suffix], err |-> NoErr]

openBucket(b, dir) == openBucketWithDebug(b, dir, FALSE)

\* The value set for a name in a sequence of <<name, value>> pairs; the
\* empty value when the name is not set.
ValueOf(pairs, name) ==
    IF \E i \in 1..Len(pairs) : pairs[i][1] = name
    THEN (pairs[CHOOSE i \in 1..Len(pairs) : pairs[i][1] = name])[2]
    ELSE ""

\* The credentials an open of facade b presents in environment e.  The S3
\* client is given the static credentials of the facade's secret;
\* blob.OpenBucket is given the storage URL alone, and the GCS and Azure
\* drivers take the credentials from where the construction put them: the
\* file that GOOGLE_APPLICATION_CREDENTIALS names, the account and key
\* variables.  A Local bucket has none.
OpenCredentials(b, e) ==
    IF b.bConfig # Nil /\ b.bConfig[1].S3 # Nil
    THEN IF b.secret = Nil THEN <<>>
         ELSE <<DataOf(b.secret[1], awsAccessKeyId), DataOf(b.secret[1], awsSecretAccessKey)>>
    ELSE IF b.storageURL # <<>> /\ b.storageURL[1] = gcsPrefix
    THEN <<ValueOf(e.files, ValueOf(e.vars, googleApplicationCredentials))>>
    ELSE IF b.storageURL # <<>> /\ b.storageURL[1] = azurePrefix
    THEN <<ValueOf(e.vars, azureStorageAccount), ValueOf(e.vars, azureStorageKey)>>
    ELSE <<>>

----------------------------------------------------------------------------
(* The facade's operations, as functions of the facade b and the stores bs *)

\* An existence check made by opening a reader: an absent key comes back as
\* the not-found error instead of false.
ExistsMutant(b, bs, filepath) ==
    LET sp == PathSplit(filepath)
        o == openBucket(b, sp[1])
    IN  IF o.err # NoErr THEN [val |-> FALSE, err |-> o.err]
        ELSE [val |-> BucketExists(bs, o.h, sp[2]), err |-> BucketRead(bs, o.h, sp[2]).err]

\* Blob.Exists
Exists(b, bs, filepath) ==
    LET sp == PathSplit(filepath)
        o == openBucket(b, sp[1])
    IN  IF o.err # NoErr THEN [val |-> FALSE, err |-> o.err]
        ELSE [val |-> BucketExists(bs, o.h, sp[2]), err |-> NoErr]

\* A Get that hides the reader's error: an absent key reads as no bytes.
GetMutant(b, bs, filepath) ==
    LET sp == PathSplit(filepath)
        o == openBucket(b, sp[1])
    IN  IF o.err # NoErr THEN [val |-> <<>>, err |-> o.err]
        ELSE [val |-> BucketRead(bs, o.h, sp[2]).val, err |-> NoErr]

\* Blob.Get
Get(b, bs, filepath) ==
    LET sp == PathSplit(filepath)
        o == openBucket(b, sp[1])
    IN  IF o.err # NoErr THEN [val |-> <<>>, err |-> o.err]
        ELSE BucketRead(bs, o.h, sp[2])

\* What the transport does to a call: w.Write fails, w.Close fails (after
\* either the object may or may not be stored), bucket.Delete fails,
\* bucket.Close fails, r.Close fails.
NoIo ==
    [write |-> FALSE, wclose |-> FALSE, stored |-> TRUE, delete |-> FALSE,
     hclose |-> FALSE, rclose |-> FALSE]

writeErr == Err("write")
closeErr == Err("close")

\* The writer of a call: whether it was opened and whether it was closed.
NoWriter == [opened |-> 0, closed |-> 0]

\* An Upload that returns at once when the write fails, and the error of
\* the close before that of the write.
UploadWithMutant(b, bs, filepath, data, contentType, io) ==
    LET sp == PathSplit(filepath)
        o == openBucket(b, sp[1])
    IN  IF o.err # NoErr THEN [bs |-> bs, err |-> o.err, writer |-> NoWriter]
        ELSE [bs |-> IF io.stored THEN BucketWrite(bs, o.h, sp[2], data, contentType) ELSE bs,
              err |-> IF io.wclose THEN closeErr ELSE IF io.write THEN writeErr ELSE NoErr,
              writer |-> [opened |-> 1, closed |-> IF io.write THEN 0 ELSE 1]]

\* Blob.Upload on a transport with faults: the writer is closed after the
\* write whatever the write returned; the error of the write comes before
\* that of the close.
UploadWith(b, bs, filepath, data, contentType, io) ==
    LET sp == PathSplit(filepath)
        o == openBucket(b, sp[1])
    IN  IF o.err # NoErr THEN [bs |-> bs, err |-> o.err, writer |-> NoWriter]
        ELSE [bs |-> IF io.stored THEN BucketWrite(bs, o.h, sp[2], data, contentType) ELSE bs,
              err |-> IF io.write THEN writeErr ELSE IF io.wclose THEN closeErr ELSE NoErr,
              writer |-> [opened |-> 1, closed |-> 1]]

\* Blob.Upload
Upload(b, bs, filepath, data, contentType) ==
    UploadWith(b, bs, filepath, data, contentType, NoIo)

\* A Debug that deletes the key also after a failed write or close.
DebugWithMutant(b, bs, filepath, data, contentType, io) ==
    LET sp == PathSplit(filepath)
        o == openBucketWithDebug(b, sp[1], TRUE)
        written == IF io.stored /\ o.err = NoErr
                   THEN BucketWrite(bs, o.h, sp[2], data, contentType) ELSE bs
        deleted == IF io.delete THEN [bs |-> written, err |-> Err("PermissionDenied")]
                   ELSE BucketDelete(written, o.h, sp[2])
    IN  IF o.err # NoErr THEN [bs |-> bs, err |-> o.err, deleted |-> FALSE]
        ELSE [bs |-> deleted.bs,
              err |-> IF io.write THEN writeErr ELSE IF io.wclose THEN closeErr
                      ELSE deleted.err,
              deleted |-> TRUE]

\* Blob.Debug on a transport with faults: the object is written and then
\* deleted through the same handle; after a failed write or close the call
\* returns that error and does not come to the delete.
DebugWith(b, bs, filepath, data, contentType, io) ==
    LET sp == PathSplit(filepath)
        o == openBucketWithDebug(b, sp[1], TRUE)
        written == IF io.stored /\ o.err = NoErr
                   THEN BucketWrite(bs, o.h, sp[2], data, contentType) ELSE bs
        deleted == IF io.delete THEN [bs |-> written, err |-> Err("PermissionDenied")]
                   ELSE BucketDelete(written, o.h, sp[2])
    IN  IF o.err # NoErr THEN [bs |-> bs, err |-> o.err, deleted |-> FALSE]
        ELSE IF io.write THEN [bs |-> written, err |-> writeErr, deleted |-> FALSE]
        ELSE IF io.wclose THEN [bs |-> written, err |-> closeErr, deleted |-> FALSE]
        ELSE [bs |-> deleted.bs, err |-> deleted.err, deleted |-> TRUE]

\* Blob.Debug
Debug(b, bs, filepath, data, contentType) ==
    DebugWith(b, bs, filepath, data, contentType, NoIo)

checkIfObjectFile(obj) ==
    ~obj.IsDir /\ Len(obj.Key) > 0 /\ obj.Key[Len(obj.Key)] # Slash

\* The loop of Blob.List over the entries from the i-th on.
RECURSIVE ListLoop(_, _, _, _, _, _)
ListLoop(b, bs, dir, entries, i, objects) ==
    IF i > Len(entries) THEN [val |-> objects, err |-> NoErr]
    ELSE IF checkIfObjectFile(entries[i])
    THEN CHOOSE r \in
           {IF file.err # NoErr THEN [val |-> <<>>, err |-> file.err]
            ELSE ListLoop(b, bs, dir, entries, i + 1, Append(objects, file.val)) :
               file \in {Get(b, bs, PathJoin(dir, entries[i].Key))}} : TRUE
    ELSE ListLoop(b, bs, dir, entries, i + 1, objects)

\* Blob.List
List(b, bs, dir) ==
    LET o == openBucket(b, dir)
    IN  IF o.err # NoErr THEN [val |-> <<>>, err |-> o.err]
        ELSE CHOOSE r \in {ListLoop(b, bs, dir, entries, 1, <<>>) :
                              entries \in {BucketList(bs, o.h, <<>>, <<>>)}} : TRUE

\* The closure walk of Blob.ListDirN, and its loop over the entries from
\* the i-th on: the directories found, in the order they are appended.
RECURSIVE walk(_, _, _, _, _)
RECURSIVE WalkLoop(_, _, _, _, _, _)
WalkLoop(bs, h, entries, i, curDepth, maxDepth) ==
    IF i > Len(entries) THEN <<>>
    ELSE LET obj == entries[i]
             below == IF maxDepth < 0 \/ curDepth < maxDepth
                      THEN walk(bs, h, obj.Key, curDepth + 1, maxDepth)
                      ELSE <<>>
         IN  (IF obj.IsDir THEN <<obj.Key>> \o below ELSE <<>>)
             \o WalkLoop(bs, h, entries, i + 1, curDepth, maxDepth)

walk(bs, h, prefix, curDepth, maxDepth) ==
    CHOOSE r \in {WalkLoop(bs, h, entries, 1, cur, maxDepth) :
                     entries \in {BucketList(bs, h, prefix, <<Slash>>)},
                     cur \in {curDepth}} : TRUE

\* A ListDirN that puts the separator after the directory even when the
\* directory is the root.
ListDirNMutant(b, bs, dir, depth) ==
    LET o == openBucket(b, dir)
        maxDepth == IF Len(depth) > 0 THEN depth[1] ELSE 0
    IN  IF o.err # NoErr THEN [val |-> <<>>, err |-> o.err]
        ELSE [val |-> walk(bs, o.h, TrimSuffix(dir) \o <<Slash>>, 0, maxDepth), err |-> NoErr]

\* Blob.ListDirN; depth is the variadic argument, a sequence of integers.
ListDirN(b, bs, dir, depth) ==
    LET o == openBucket(b, dir)
        maxDepth == IF Len(depth) > 0 THEN depth[1] ELSE 0
        trimmed == TrimSuffix(dir)
        relPrefix == IF trimmed # <<>> THEN trimmed \o <<Slash>> ELSE trimmed
    IN  IF o.err # NoErr THEN [val |-> <<>>, err |-> o.err]
        ELSE [val |-> walk(bs, o.h, relPrefix, 0, maxDepth), err |-> NoErr]

\* Blob.Delete with isDir false: one key is deleted.
DeleteFile(b, bs, filepath) ==
    LET sp == PathSplit(filepath)
        o == openBucket(b, sp[1])
    IN  IF o.err # NoErr THEN [bs |-> bs, err |-> o.err]
        ELSE BucketDelete(bs, o.h, sp[2])

\* What the store does to a deleteDir: the iterator's Next fails at the
\* failAt-th call (0: never), and the delete of the entries whose places
\* are denied fails.
NoFaults == [failAt |-> 0, denied |-> {}]

\* The loop of Blob.deleteDir over the entries from the i-th on: an error
\* of the iterator is returned as it is, the failures of the deletes are
\* collected.
RECURSIVE DeleteLoop(_, _, _, _, _, _, _)
DeleteLoop(b, bs, dir, entries, i, deleteErrs, faults) ==
    IF i = faults.failAt THEN [bs |-> bs, err |-> Err("Internal")]
    ELSE IF i > Len(entries) THEN [bs |-> bs, err |-> NewAggregate(deleteErrs)]
    ELSE CHOOSE r \in
           {DeleteLoop(b, d.bs, dir, entries, i + 1,
                       IF d.err # NoErr THEN Append(deleteErrs, d.err.kind)
                       ELSE deleteErrs, faults) :
               d \in {IF i \in faults.denied
                      THEN [bs |-> bs, err |-> Err("PermissionDenied")]
                      ELSE DeleteFile(b, bs, dir \o <<Slash>> \o entries[i].Key)}} : TRUE

\* A deleteDir over the one-level listing of the directory.
deleteDirMutant(b, bs, dir) ==
    LET o == openBucket(b, dir)
    IN  IF o.err # NoErr THEN [bs |-> bs, err |-> o.err]
        ELSE CHOOSE r \in {DeleteLoop(b, bs, dir, entries, 1, <<>>, NoFaults) :
                              entries \in {BucketList(bs, o.h, <<>>, <<Slash>>)}} : TRUE

\* A deleteDir that stops after the first entry and reports no error.
deleteDirFirstMutant(b, bs, dir) ==
    LET o == openBucket(b, dir)
    IN  IF o.err # NoErr THEN [bs |-> bs, err |-> o.err]
        ELSE CHOOSE r \in {DeleteLoop(b, bs, dir, SelectSeq(entries, LAMBDA e : e = entries[1]),
                                         1, <<>>, NoFaults) :
                              entries \in {BucketList(bs, o.h, <<>>, <<>>)}} : TRUE

\* Blob.deleteDir on a store with faults: every entry of the flat listing
\* bucket.List(nil) is deleted.
deleteDirWith(b, bs, dir, faults) ==
    LET o == openBucket(b, dir)
    IN  IF o.err # NoErr THEN [bs |-> bs, err |-> o.err]
        ELSE CHOOSE r \in {DeleteLoop(b, bs, dir, entries, 1, <<>>, faults) :
                              entries \in {BucketList(bs, o.h, <<>>, <<>>)}} : TRUE

\* Blob.deleteDir on a store that answers every request.
deleteDir(b, bs, dir) == deleteDirWith(b, bs, dir, NoFaults)

\* A Delete that empties the directory of the path whatever isDir says.
DeleteMutant(b, bs, filepath, isDir) ==
    deleteDir(b, bs, IF isDir THEN filepath ELSE PathSplit(filepath)[1])

\* Blob.Delete
Delete(b, bs, filepath, isDir) ==
    IF isDir THEN deleteDir(b, bs, filepath) ELSE DeleteFile(b, bs, filepath)

\* Blob.SetPathAsDir: the handle is opened on path itself, and the key
\* written through it is path with a trailing slash.
SetPathAsDir(b, bs, path) ==
    LET o == openBucket(b, path)
        key == IF ~HasSuffix(path, <<Slash>>) THEN path \o <<Slash>> ELSE path
    IN  IF o.err # NoErr THEN [bs |-> bs, err |-> o.err]
        ELSE [bs |-> BucketWrite(bs, o.h, key, <<>>, "detected"), err |-> NoErr]

----------------------------------------------------------------------------
(* The state machine: facades built by NewBlob, and the caller's calls     *)

\* The most objects the stores hold together.
MaxObjects == 2

\* The secrets the client can resolve, in namespace "db".
Cluster ==
    {[Namespace |-> "db", Name |-> "s3-secret",
      Data |-> << <<awsAccessKeyId, "id">>, <<awsSecretAccessKey, "key">> >>],
     [Namespace |-> "db", Name |-> "gcs-secret",
      Data |-> << <<googleServiceAccountJsonKey, "json">> >>],
     [Namespace |-> "db", Name |-> "azure-secret",
      Data |-> << <<azureAccountName, "account">>, <<azureAccountKey, "key">> >>]}

S3Backend(prefix) ==
    [EmptyBackend EXCEPT
        !.StorageSecretName = "s3-secret",
        !.S3 = Some([Bucket |-> "kubestash", Prefix |-> prefix, Region |-> "us-east-2",
                     Endpoint |-> "https://s3.us-east-2.amazonaws.com",
                     InsecureTLS |-> FALSE])]

GCSBackend(prefix) ==
    [EmptyBackend EXCEPT
        !.StorageSecretName = "gcs-secret",
        !.GCS = Some([Bucket |-> "kubestash", Prefix |-> prefix])]

AzureBackend(prefix) ==
    [EmptyBackend EXCEPT
        !.StorageSecretName = "azure-secret",
        !.Azure = Some([Container |-> "kubestash", Prefix |-> prefix])]

LocalBackend ==
    [EmptyBackend EXCEPT !.Local = Some([MountPath |-> "/safe/data"])]

\* One descriptor of each kind NewBlob supports.
SampleBackends ==
    {S3Backend(<<"a">>), GCSBackend(<<"a">>), AzureBackend(<<"a">>), LocalBackend}

\* The stores the descriptors above name.
Locations ==
    {<<"s3", "kubestash">>, <<gcsPrefix, "kubestash">>, <<azurePrefix, "kubestash">>,
     <<localPrefix, "/safe/data", "?no_tmp_dir=true">>}

\* The paths of files and of directories the caller passes, the payloads
\* and the variadic depth arguments.
FilePaths ==
    {<<"d", "/", "f">>, <<"d", "/", "e", "/", "f">>, <<"d", "/", ".", ".">>}
DirPaths == {<<>>, <<"d">>, <<"d", "/", "e">>}
MarkPaths == {<<"d">>, <<"d", "/", "e">>}
CleanupPaths == DirPaths \cup {<<"d", "/">>}
Payloads == {<<1>>, <<2>>}
Depths == {<<>>, <<0>>, <<1>>, <<-1>>}

\* Two facades on one bucket: the paths of the caller.
IsoFilePaths == {<<"f">>, <<".", ".", "/", "b", "/", "f">>}
IsoDirPaths == {<<>>}
IsoMarkPaths == {<<"d">>}

\* The faults of the store under a deleteDir.
Faults == {[failAt |-> n, denied |-> D] : n \in {0, 2}, D \in {{}, {1}}}

NoStore == [k \in {} |-> [data |-> <<>>, contentType |-> ""]]

\* No call has returned yet.
Idle ==
    [op |-> "NewBlob", f |-> "", path |-> <<>>, data |-> <<>>, isDir |-> FALSE,
     depth |-> <<>>, ok |-> FALSE, bytes |-> <<>>, list |-> <<>>, err |-> NoErr,
     made |-> {}, gone |-> {}, faults |-> NoFaults,
     handles |-> [opened |-> 0, closed |-> 0],
     io |-> NoIo, writer |-> NoWriter, deleted |-> FALSE, log |-> <<>>]

\* The objects of all stores.
Objects(bs) == UNION {{<<loc, k>> : k \in DOMAIN bs[loc]} : loc \in DOMAIN bs}

\* The markers on record that are still in their store, with the new ones:
\* the objects a SetPathAsDir call of facade f for path created.
Prune(ms, bs) == {m \in ms : m.key \in DOMAIN bs[m.loc]}
Created(f, path, old, new) ==
    {[f |-> f, path |-> path, loc |-> o[1], key |-> o[2]] : o \in Objects(new) \ Objects(old)}

\* The state after one facade was built from a sample descriptor.
Init ==
    \E bc \in SampleBackends :
        LET r == NewBlob(Cluster, "db", bc, EmptyEnv)
        IN  /\ r.err = NoErr
            /\ blobs = [f \in {"A"} |-> r.blob[1]]
            /\ env = r.env
            /\ buckets = [loc \in Locations |-> NoStore]
            /\ markers = {}
            /\ last = Idle

\* The state after two S3 facades were built on one bucket, with the
\* prefixes "a" and "b".
InitIso ==
    LET ra == NewBlob(Cluster, "db", S3Backend(<<"a">>), EmptyEnv)
        rb == NewBlob(Cluster, "db", S3Backend(<<"b">>), ra.env)
    IN  /\ ra.err = NoErr /\ rb.err = NoErr
        /\ blobs = [f \in {"A", "B"} |-> IF f = "A" THEN ra.blob[1] ELSE rb.blob[1]]
        /\ env = rb.env
        /\ buckets = [loc \in Locations |-> NoStore]
        /\ markers = {}
        /\ last = Idle

\* The handles of a call's own open o: a successful open yields one
\* handle; `defer closeBucket` closes it when the call returns, and a call
\* without it returns with the handle open.  (The Deletes that deleteDir
\* makes for the entries open and close their own.)
DeferClose(o) ==
    IF o.err = NoErr THEN [opened |-> 1, closed |-> 1] ELSE [opened |-> 0, closed |-> 0]
NoClose(o) ==
    IF o.err = NoErr THEN [opened |-> 1, closed |-> 0] ELSE [opened |-> 0, closed |-> 0]

\* A panic ends the process: no call follows it.
Alive == last.err # Panic

CallExists(f, p) ==
    \E r \in {Exists(blobs[f], buckets, p)} :
        /\ Alive
        /\ last' = [Idle EXCEPT !.op = "Exists", !.f = f, !.path = p,
                                !.ok = r.val, !.err = r.err,
                                !.handles = DeferClose(openBucket(blobs[f], PathSplit(p)[1]))]
        /\ UNCHANGED <<buckets, blobs, env, markers>>

CallGet(f, p) ==
    \E r \in {Get(blobs[f], buckets, p)} :
        /\ Alive
        /\ last' = [Idle EXCEPT !.op = "Get", !.f = f, !.path = p,
                                !.bytes = r.val, !.err = r.err,
                                !.handles = DeferClose(openBucket(blobs[f], PathSplit(p)[1]))]
        /\ UNCHANGED <<buckets, blobs, env, markers>>

CallUpload(f, p, data) ==
    \E r \in {Upload(blobs[f], buckets, p, data, "")} :
        /\ Alive
        /\ Cardinality(Objects(r.bs)) <= MaxObjects
        /\ buckets' = r.bs
        /\ markers' = Prune(markers, r.bs)
        /\ last' = [Idle EXCEPT !.op = "Upload", !.f = f, !.path = p,
                                !.data = data, !.err = r.err, !.writer = r.writer,
                                !.handles = DeferClose(openBucket(blobs[f], PathSplit(p)[1])),
                                !.made = Objects(r.bs) \ Objects(buckets),
                                !.gone = Objects(buckets) \ Objects(r.bs)]
        /\ UNCHANGED <<blobs, env>>

CallDebug(f, p, data) ==
    \E r \in {Debug(blobs[f], buckets, p, data, "")} :
        /\ Alive
        /\ buckets' = r.bs
        /\ markers' = Prune(markers, r.bs)
        /\ last' = [Idle EXCEPT !.op = "Debug", !.f = f, !.path = p,
                                !.data = data, !.err = r.err, !.deleted = r.deleted,
                                !.handles = DeferClose(openBucketWithDebug(
                                                blobs[f], PathSplit(p)[1], TRUE)),
                                !.made = Objects(r.bs) \ Objects(buckets),
                                !.gone = Objects(buckets) \ Objects(r.bs)]
        /\ UNCHANGED <<blobs, env>>

\* A List that takes the objects it has read out of the store.
CallListMutant(f, dir) ==
    \E r \in {List(blobs[f], buckets, dir)}, d \in {deleteDir(blobs[f], buckets, dir)} :
        /\ Alive
        /\ buckets' = d.bs
        /\ markers' = Prune(markers, d.bs)
        /\ last' = [Idle EXCEPT !.op = "List", !.f = f, !.path = dir,
                                !.list = r.val, !.err = r.err,
                                !.handles = DeferClose(openBucket(blobs[f], dir))]
        /\ UNCHANGED <<blobs, env>>

CallList(f, dir) ==
    \E r \in {List(blobs[f], buckets, dir)} :
        /\ Alive
        /\ last' = [Idle EXCEPT !.op = "List", !.f = f, !.path = dir,
                                !.list = r.val, !.err = r.err,
                                !.handles = DeferClose(openBucket(blobs[f], dir))]
        /\ UNCHANGED <<buckets, blobs, env, markers>>

CallListDirN(f, dir, depth) ==
    \E r \in {ListDirN(blobs[f], buckets, dir, depth)} :
        /\ Alive
        /\ last' = [Idle EXCEPT !.op = "ListDirN", !.f = f, !.path = dir,
                                !.depth = depth, !.list = r.val, !.err = r.err,
                                !.handles = DeferClose(openBucket(blobs[f], dir))]
        /\ UNCHANGED <<buckets, blobs, env, markers>>

CallDelete(f, p, isDir) ==
    \E r \in {Delete(blobs[f], buckets, p, isDir)} :
        /\ Alive
        /\ buckets' = r.bs
        /\ markers' = Prune(markers, r.bs)
        /\ last' = [Idle EXCEPT !.op = "Delete", !.f = f, !.path = p,
                                !.isDir = isDir, !.err = r.err,
                                !.handles = DeferClose(openBucket(blobs[f],
                                                IF isDir THEN p ELSE PathSplit(p)[1])),
                                !.made = Objects(r.bs) \ Objects(buckets),
                                !.gone = Objects(buckets) \ Objects(r.bs)]
        /\ UNCHANGED <<blobs, env>>

\* A SetPathAsDir that keeps the path with its "/" in the facade's prefix.
CallSetPathAsDirMutant(f, path) ==
    \E r \in {SetPathAsDir(blobs[f], buckets, path)} :
        /\ Alive
        /\ Cardinality(Objects(r.bs)) <= MaxObjects
        /\ buckets' = r.bs
        /\ markers' = Prune(markers, r.bs) \cup Created(f, path, buckets, r.bs)
        /\ last' = [Idle EXCEPT !.op = "SetPathAsDir", !.f = f, !.path = path,
                                !.err = r.err,
                                !.handles = NoClose(openBucket(blobs[f], path)),
                                !.made = Objects(r.bs) \ Objects(buckets),
                                !.gone = Objects(buckets) \ Objects(r.bs)]
        /\ blobs' = [blobs EXCEPT ![f].prefix = path \o <<Slash>>]
        /\ UNCHANGED env

CallSetPathAsDir(f, path) ==
    \E r \in {SetPathAsDir(blobs[f], buckets, path)} :
        /\ Alive
        /\ Cardinality(Objects(r.bs)) <= MaxObjects
        /\ buckets' = r.bs
        /\ markers' = Prune(markers, r.bs) \cup Created(f, path, buckets, r.bs)
        /\ last' = [Idle EXCEPT !.op = "SetPathAsDir", !.f = f, !.path = path,
                                !.err = r.err,
                                !.handles = NoClose(openBucket(blobs[f], path)),
                                !.made = Objects(r.bs) \ Objects(buckets),
                                !.gone = Objects(buckets) \ Objects(r.bs)]
        /\ UNCHANGED <<blobs, env>>

Next ==
    \E f \in DOMAIN blobs :
        \/ \E p \in FilePaths : CallExists(f, p)
        \/ \E p \in FilePaths : CallGet(f, p)
        \/ \E p \in FilePaths, data \in Payloads : CallUpload(f, p, data)
        \/ \E p \in FilePaths, data \in Payloads : CallDebug(f, p, data)
        \/ \E dir \in DirPaths : CallList(f, dir)
        \/ \E dir \in DirPaths, depth \in Depths : CallListDirN(f, dir, depth)
        \/ \E p \in FilePaths : CallDelete(f, p, FALSE)
        \/ \E dir \in CleanupPaths : CallDelete(f, dir, TRUE)
        \/ \E dir \in MarkPaths : CallSetPathAsDir(f, dir)

Spec == Init /\ [][Next]_vars

NextIso ==
    \E f \in DOMAIN blobs :
        \/ \E p \in IsoFilePaths : CallExists(f, p)
        \/ \E p \in IsoFilePaths : CallGet(f, p)
        \/ \E p \in IsoFilePaths, data \in Payloads : CallUpload(f, p, data)
        \/ \E p \in IsoFilePaths, data \in Payloads : CallDebug(f, p, data)
        \/ \E dir \in IsoDirPaths : CallList(f, dir)
        \/ \E dir \in IsoDirPaths, depth \in Depths : CallListDirN(f, dir, depth)
        \/ \E p \in IsoFilePaths : CallDelete(f, p, FALSE)
        \/ \E dir \in IsoDirPaths : CallDelete(f, dir, TRUE)
        \/ \E dir \in IsoMarkPaths : CallSetPathAsDir(f, dir)

SpecIso == InitIso /\ [][NextIso]_vars

\* Delete(dir, true) on a store with faults.
CallDeleteFaulty(f, dir, faults) ==
    \E r \in {deleteDirWith(blobs[f], buckets, dir, faults)} :
        /\ Alive
        /\ buckets' = r.bs
        /\ markers' = Prune(markers, r.bs)
        /\ last' = [Idle EXCEPT !.op = "Delete", !.f = f, !.path = dir,
                                !.isDir = TRUE, !.err = r.err, !.faults = faults,
                                !.handles = DeferClose(openBucket(blobs[f], dir)),
                                !.made = Objects(r.bs) \ Objects(buckets),
                                !.gone = Objects(buckets) \ Objects(r.bs)]
        /\ UNCHANGED <<blobs, env>>

NextFault ==
    \E f \in DOMAIN blobs :
        \/ \E p \in FilePaths, data \in Payloads : CallUpload(f, p, data)
        \/ \E dir \in DirPaths, faults \in Faults : CallDeleteFaulty(f, dir, faults)

SpecFault == Init /\ [][NextFault]_vars

\* The secrets the client can resolve when the S3 secret may lack a key.
ClusterCred ==
    Cluster \cup
    {[Namespace |-> "db", Name |-> "s3-no-id",
      Data |-> << <<awsSecretAccessKey, "key">> >>],
     [Namespace |-> "db", Name |-> "s3-no-key",
      Data |-> << <<awsAccessKeyId, "id">> >>]}

\* The state after one S3 facade was built from a secret that holds both
\* keys or lacks one of them.
InitCred ==
    \E name \in {"s3-secret", "s3-no-id", "s3-no-key"} :
        LET r == NewBlob(ClusterCred, "db",
                         [S3Backend(<<"a">>) EXCEPT !.StorageSecretName = name], EmptyEnv)
        IN  /\ r.err = NoErr
            /\ blobs = [f \in {"A"} |-> r.blob[1]]
            /\ env = r.env
            /\ buckets = [loc \in Locations |-> NoStore]
            /\ markers = {}
            /\ last = Idle

SpecCred == InitCred /\ [][Next]_vars

\* The faults of the transport under a call: any for Debug, those of the
\* writer and the handle for Upload, those of the reader and the handle
\* for Get, that of the handle for the other calls.  With no fault of the
\* writer the object is stored.
AllIo ==
    {io \in [write : BOOLEAN, wclose : BOOLEAN, stored : BOOLEAN, delete : BOOLEAN,
             hclose : BOOLEAN, rclose : BOOLEAN] :
        ~io.write /\ ~io.wclose => io.stored}
WriterIo == {io \in AllIo : ~io.rclose /\ ~io.delete}
DebugIo ==
    {io \in WriterIo : ~io.hclose}
    \cup {[NoIo EXCEPT !.delete = d, !.hclose = h] : d \in BOOLEAN, h \in BOOLEAN}
ReaderIo == {[NoIo EXCEPT !.hclose = h, !.rclose = r] : h \in BOOLEAN, r \in BOOLEAN}
HandleIo == {[NoIo EXCEPT !.hclose = h] : h \in BOOLEAN}

\* closeBucket: a failure of bucket.Close is logged and nothing is returned.
closeBucket(handles, fails) ==
    IF handles.closed > 0 /\ fails THEN <<"failed to close bucket">> ELSE <<>>

\* The deferred close of Get's reader: a failure is logged.
closeReader(opened, fails) ==
    IF opened /\ fails THEN <<"failed to close reader">> ELSE <<>>

CallExistsIO(f, p, io) ==
    \E r \in {Exists(blobs[f], buckets, p)},
       h \in {DeferClose(openBucket(blobs[f], PathSplit(p)[1]))} :
        /\ Alive
        /\ last' = [Idle EXCEPT !.op = "Exists", !.f = f, !.path = p,
                                !.ok = r.val, !.err = r.err, !.io = io,
                                !.handles = h, !.log = closeBucket(h, io.hclose)]
        /\ UNCHANGED <<buckets, blobs, env, markers>>

\* A Get that returns the error of a failed close of its reader or handle.
CallGetIOMutant(f, p, io) ==
    \E r \in {Get(blobs[f], buckets, p)},
       h \in {DeferClose(openBucket(blobs[f], PathSplit(p)[1]))} :
        /\ Alive
        /\ last' = [Idle EXCEPT !.op = "Get", !.f = f, !.path = p,
                                !.bytes = r.val,
                                !.err = IF r.err = NoErr /\ (io.rclose \/ io.hclose)
                                        THEN closeErr ELSE r.err,
                                !.io = io, !.handles = h,
                                !.log = closeReader(r.err = NoErr, io.rclose)
                                            \o closeBucket(h, io.hclose)]
        /\ UNCHANGED <<buckets, blobs, env, markers>>

CallGetIO(f, p, io) ==
    \E r \in {Get(blobs[f], buckets, p)},
       h \in {DeferClose(openBucket(blobs[f], PathSplit(p)[1]))} :
        /\ Alive
        /\ last' = [Idle EXCEPT !.op = "Get", !.f = f, !.path = p,
                                !.bytes = r.val, !.err = r.err, !.io = io,
                                !.handles = h,
                                !.log = closeReader(r.err = NoErr, io.rclose)
                                            \o closeBucket(h, io.hclose)]
        /\ UNCHANGED <<buckets, blobs, env, markers>>

CallUploadIO(f, p, data, io) ==
    \E r \in {UploadWith(blobs[f], buckets, p, data, "", io)},
       h \in {DeferClose(openBucket(blobs[f], PathSplit(p)[1]))} :
        /\ Alive
        /\ Cardinality(Objects(r.bs)) <= MaxObjects
        /\ buckets' = r.bs
        /\ markers' = Prune(markers, r.bs)
        /\ last' = [Idle EXCEPT !.op = "Upload", !.f = f, !.path = p,
                                !.data = data, !.err = r.err, !.writer = r.writer,
                                !.io = io, !.handles = h,
                                !.log = closeBucket(h, io.hclose),
                                !.made = Objects(r.bs) \ Objects(buckets),
                                !.gone = Objects(buckets) \ Objects(r.bs)]
        /\ UNCHANGED <<blobs, env>>

CallDebugIO(f, p, data, io) ==
    \E r \in {DebugWith(blobs[f], buckets, p, data, "", io)},
       h \in {DeferClose(openBucketWithDebug(blobs[f], PathSplit(p)[1], TRUE))} :
        /\ Alive
        /\ Cardinality(Objects(r.bs)) <= MaxObjects
        /\ buckets' = r.bs
        /\ markers' = Prune(markers, r.bs)
        /\ last' = [Idle EXCEPT !.op = "Debug", !.f = f, !.path = p,
                                !.data = data, !.err = r.err, !.deleted = r.deleted,
                                !.io = io, !.handles = h,
                                !.log = closeBucket(h, io.hclose),
                                !.made = Objects(r.bs) \ Objects(buckets),
                                !.gone = Objects(buckets) \ Objects(r.bs)]
        /\ UNCHANGED <<blobs, env>>

CallListIO(f, dir, io) ==
    \E r \in {List(blobs[f], buckets, dir)},
       h \in {DeferClose(openBucket(blobs[f], dir))} :
        /\ Alive
        /\ last' = [Idle EXCEPT !.op = "List", !.f = f, !.path = dir,
                                !.list = r.val, !.err = r.err, !.io = io,
                                !.handles = h, !.log = closeBucket(h, io.hclose)]
        /\ UNCHANGED <<buckets, blobs, env, markers>>

CallListDirNIO(f, dir, depth, io) ==
    \E r \in {ListDirN(blobs[f], buckets, dir, depth)},
       h \in {DeferClose(openBucket(blobs[f], dir))} :
        /\ Alive
        /\ last' = [Idle EXCEPT !.op = "ListDirN", !.f = f, !.path = dir,
                                !.depth = depth, !.list = r.val, !.err = r.err,
                                !.io = io, !.handles = h,
                                !.log = closeBucket(h, io.hclose)]
        /\ UNCHANGED <<buckets, blobs, env, markers>>

CallDeleteIO(f, p, isDir, io) ==
    \E r \in {Delete(blobs[f], buckets, p, isDir)},
       h \in {DeferClose(openBucket(blobs[f], IF isDir THEN p ELSE PathSplit(p)[1]))} :
        /\ Alive
        /\ buckets' = r.bs
        /\ markers' = Prune(markers, r.bs)
        /\ last' = [Idle EXCEPT !.op = "Delete", !.f = f, !.path = p,
                                !.isDir = isDir, !.err = r.err, !.io = io,
                                !.handles = h, !.log = closeBucket(h, io.hclose),
                                !.made = Objects(r.bs) \ Objects(buckets),
                                !.gone = Objects(buckets) \ Objects(r.bs)]
        /\ UNCHANGED <<blobs, env>>

\* The paths, the payloads and the depths of the calls on a transport with
\* faults.
IoFilePaths == {<<"d", "/", "f">>, <<"d", "/", "e", "/", "f">>}
IoPayloads == {<<1>>}
IoDepths == {<<>>, <<-1>>}

\* The state after one S3 or GCS facade was built.
InitIO ==
    \E bc \in {S3Backend(<<"a">>), GCSBackend(<<"a">>)} :
        LET r == NewBlob(Cluster, "db", bc, EmptyEnv)
        IN  /\ r.err = NoErr
            /\ blobs = [f \in {"A"} |-> r.blob[1]]
            /\ env = r.env
            /\ buckets = [loc \in Locations |-> NoStore]
            /\ markers = {}
            /\ last = Idle

NextIO ==
    \E f \in DOMAIN blobs :
        \/ \E p \in IoFilePaths, io \in HandleIo : CallExistsIO(f, p, io)
        \/ \E p \in IoFilePaths, io \in ReaderIo : CallGetIO(f, p, io)
        \/ \E p \in IoFilePaths, data \in IoPayloads, io \in WriterIo :
               CallUploadIO(f, p, data, io)
        \/ \E p \in IoFilePaths, data \in IoPayloads, io \in DebugIo :
               CallDebugIO(f, p, data, io)
        \/ \E dir \in DirPaths, io \in HandleIo : CallListIO(f, dir, io)
        \/ \E dir \in DirPaths, depth \in IoDepths, io \in HandleIo :
               CallListDirNIO(f, dir, depth, io)
        \/ \E p \in IoFilePaths, io \in HandleIo : CallDeleteIO(f, p, FALSE, io)
        \/ \E dir \in DirPaths, io \in HandleIo : CallDeleteIO(f, dir, TRUE, io)

SpecIO == InitIO /\ [][NextIO]_vars

\* The configured prefixes and the caller's paths that bring out every
\* case of the handle's prefix: a prefix that is empty, plain, and wrapped
\* in separators; a path with no directory, with one, and at the root.
Prefixes == {<<>>, <<"a">>, <<"/", "a", "/">>}
PrefixFilePaths == {<<"f">>, <<"d", "/", "f">>, <<"/", "f">>}
PrefixDirPaths == {<<>>, <<"d">>}

\* The state after one facade was built from a descriptor with one of
\* the prefixes.
InitPrefix ==
    \E bc \in {S3Backend(p) : p \in Prefixes} \cup {GCSBackend(p) : p \in Prefixes}
              \cup {AzureBackend(<<"a">>), LocalBackend} :
        LET r == NewBlob(Cluster, "db", bc, EmptyEnv)
        IN  /\ r.err = NoErr
            /\ blobs = [f \in {"A"} |-> r.blob[1]]
            /\ env = r.env
            /\ buckets = [loc \in Locations |-> NoStore]
            /\ markers = {}
            /\ last = Idle

NextPrefix ==
    \E f \in DOMAIN blobs :
        \/ \E p \in PrefixFilePaths : CallExists(f, p)
        \/ \E p \in PrefixFilePaths : CallGet(f, p)
        \/ \E p \in PrefixFilePaths, data \in Payloads : CallUpload(f, p, data)
        \/ \E p \in PrefixFilePaths, data \in Payloads : CallDebug(f, p, data)
        \/ \E dir \in PrefixDirPaths : CallList(f, dir)
        \/ \E dir \in PrefixDirPaths, depth \in Depths : CallListDirN(f, dir, depth)
        \/ \E p \in PrefixFilePaths : CallDelete(f, p, FALSE)

SpecPrefix == InitPrefix /\ [][NextPrefix]_vars

\* The most facades a process builds.
MaxFacades == 2

\* The secrets the client can resolve when facades are built one after
\* another: those of Cluster, a second GCS and a second Azure secret, and
\* secrets that lack a key.
ClusterNew ==
    Cluster \cup
    {[Namespace |-> "db", Name |-> "gcs-secret-2",
      Data |-> << <<googleServiceAccountJsonKey, "json2">> >>],
     [Namespace |-> "db", Name |-> "azure-secret-2",
      Data |-> << <<azureAccountName, "account2">>, <<azureAccountKey, "key2">> >>],
     [Namespace |-> "db", Name |-> "gcs-no-json", Data |-> <<>>],
     [Namespace |-> "db", Name |-> "azure-no-key",
      Data |-> << <<azureAccountName, "account3">> >>],
     [Namespace |-> "db", Name |-> "azure-no-name",
      Data |-> << <<azureAccountKey, "key3">> >>]}

\* The descriptors NewBlob is called with, by the name of the facade that
\* is built: one of each supported kind, a second GCS and Azure one with
\* other credentials, descriptors whose secret lacks a key, Local ones
\* with no secret name and with one the client cannot resolve, an S3 one
\* with no secret name, a kind
\* NewBlob does not support, and descriptors with no variant and with two.
NewCases ==
    [S  |-> S3Backend(<<"a">>),
     S0 |-> [S3Backend(<<"a">>) EXCEPT !.StorageSecretName = ""],
     G1 |-> GCSBackend(<<"a">>),
     G2 |-> [GCSBackend(<<"b">>) EXCEPT !.StorageSecretName = "gcs-secret-2"],
     G0 |-> [GCSBackend(<<"a">>) EXCEPT !.StorageSecretName = "gcs-no-json"],
     A1 |-> AzureBackend(<<"a">>),
     A2 |-> [AzureBackend(<<"b">>) EXCEPT !.StorageSecretName = "azure-secret-2"],
     A0 |-> [AzureBackend(<<"a">>) EXCEPT !.StorageSecretName = "azure-no-key"],
     A3 |-> [AzureBackend(<<"a">>) EXCEPT !.StorageSecretName = "azure-no-name"],
     L1 |-> LocalBackend,
     L2 |-> [LocalBackend EXCEPT !.StorageSecretName = "local-secret"],
     W  |-> [EmptyBackend EXCEPT !.StorageSecretName = "swift-secret",
                                 !.Swift = Some([Container |-> "stash-backup"])],
     N0 |-> [EmptyBackend EXCEPT !.StorageSecretName = "no-secret"],
     N2 |-> [S3Backend(<<"a">>) EXCEPT !.StorageSecretName = "no-secret",
                                       !.GCS = Some([Bucket |-> "kubestash", Prefix |-> <<"a">>])]]

\* No facade is built yet.
InitNew ==
    /\ blobs = [f \in {} |-> ZeroBlob]
    /\ env = EmptyEnv
    /\ buckets = [loc \in Locations |-> NoStore]
    /\ markers = {}
    /\ last = Idle

\* NewBlob with the descriptor of that name: the facade exists when the
\* call returns no error, the environment is as the call leaves it.
CallNewBlob(name) ==
    \E r \in {NewBlob(ClusterNew, "db", NewCases[name], env)} :
        /\ Alive
        /\ name \notin DOMAIN blobs
        /\ Cardinality(DOMAIN blobs) < MaxFacades
        /\ blobs' = IF r.err # NoErr THEN blobs
                    ELSE [f \in DOMAIN blobs \cup {name} |->
                             IF f = name THEN r.blob[1] ELSE blobs[f]]
        /\ env' = r.env
        /\ last' = [Idle EXCEPT !.f = name, !.err = r.err]
        /\ UNCHANGED <<buckets, markers>>

NextNew ==
    \/ \E name \in DOMAIN NewCases : CallNewBlob(name)
    \/ \E f \in DOMAIN blobs, p \in FilePaths : CallExists(f, p)

SpecNew == InitNew /\ [][NextNew]_vars

----------------------------------------------------------------------------
(* What the claims speak of: the keys of a facade, seen from outside       *)

\* The store the facade's descriptor names.
LocOf(b) ==
    IF b.bConfig # Nil /\ b.bConfig[1].S3 # Nil
    THEN <<"s3", b.bConfig[1].S3[1].Bucket>>
    ELSE b.storageURL

\* The effective key prefix of a directory: the configured prefix joined
\* with the directory, normalised, and a separator; nothing at the root.
EffectivePrefix(b, dir) ==
    LET joined == Trim(PathJoin(b.prefix, dir))
    IN  IF joined = <<>> THEN <<>> ELSE joined \o <<Slash>>

\* The physical key the facade keeps the path under.
KeyOf(b, p) == EffectivePrefix(b, PathSplit(p)[1]) \o PathSplit(p)[2]

\* The path's key is in the store of facade f.
Present(f, p) == KeyOf(blobs[f], p) \in DOMAIN buckets[LocOf(blobs[f])]

\* The physical keys under a directory of facade f.
KeysUnder(f, dir) ==
    {k \in DOMAIN buckets[LocOf(blobs[f])] : HasPrefix(k, EffectivePrefix(blobs[f], dir))}

\* The elements of a sequence.
Range(seq) == {seq[i] : i \in 1..Len(seq)}

\* The call on record returned to the caller.
Returned(op) == last.op = op /\ last.err # Panic

----------------------------------------------------------------------------
(* C1 *)

\* C1 (round trip, every backend kind): an Upload on a facade built by
\* NewBlob returns to its caller, and when it returned no error a Get of
\* the same path directly after it returns exactly the uploaded bytes and
\* no error.
C1_RoundTrip ==
    last.op = "Upload" =>
        /\ last.err # Panic
        /\ last.err = NoErr =>
               Get(blobs[last.f], buckets, last.path) = [val |-> last.data, err |-> NoErr]

----------------------------------------------------------------------------
(* C2 *)

\* C2 (Get of an absent key is not-found): a Get that returns for a path
\* whose key is not in the store returns the not-found error and no bytes,
\* both for a path never uploaded and directly after a Delete(p, false) that
\* returned no error.
C2_GetNotFound ==
    /\ \A f \in DOMAIN blobs, p \in FilePaths \cup IsoFilePaths :
           LET g == Get(blobs[f], buckets, p)
           IN  g.err # Panic /\ ~Present(f, p) => g = [val |-> <<>>, err |-> NotFound]
    /\ Returned("Get") /\ ~Present(last.f, last.path) => last.err = NotFound
    /\ Returned("Delete") /\ ~last.isDir /\ last.err = NoErr =>
           Get(blobs[last.f], buckets, last.path).err = NotFound

\* An uploaded path was deleted with Delete(p, false), and a Get of it now
\* fails with not-found.
C2_Witness ==
    /\ Returned("Delete") /\ ~last.isDir /\ last.err = NoErr
    /\ last.gone # {}
    /\ Get(blobs[last.f], buckets, last.path).err = NotFound

----------------------------------------------------------------------------
(* C3 *)

\* C3 (Exists): an Exists that returns reports no error and tells whether the
\* path's key is in the store: false after construction and after a delete,
\* true directly after an Upload that returned no error; an absent key is
\* never an error.
C3_Exists ==
    /\ \A f \in DOMAIN blobs, p \in FilePaths \cup IsoFilePaths :
           LET e == Exists(blobs[f], buckets, p)
           IN  e.err # Panic => e = [val |-> Present(f, p), err |-> NoErr]
    /\ Returned("Exists") => last.err = NoErr /\ last.ok = Present(last.f, last.path)
    /\ last.op = "NewBlob" =>
           \A f \in DOMAIN blobs, p \in FilePaths \cup IsoFilePaths :
               ~Exists(blobs[f], buckets, p).val
    /\ Returned("Upload") /\ last.err = NoErr =>
           Exists(blobs[last.f], buckets, last.path) = [val |-> TRUE, err |-> NoErr]
    /\ Returned("Delete") /\ ~last.isDir /\ last.err = NoErr =>
           Exists(blobs[last.f], buckets, last.path) = [val |-> FALSE, err |-> NoErr]

\* An Exists call returned false and no error for an absent path while
\* another path of the same directory is in the store.
C3_Witness ==
    /\ Returned("Exists") /\ last.err = NoErr /\ ~last.ok
    /\ ~Present(last.f, last.path)
    /\ \E p \in FilePaths : Present(last.f, p)

----------------------------------------------------------------------------
(* C4 *)

\* The payloads of the leaf keys under a directory of facade f, in ascending
\* order of key; keys that end in a slash are directory markers.
LeafPayloads(f, dir) ==
    LET leaves == SortKeys({k \in KeysUnder(f, dir) : k[Len(k)] # Slash})
    IN  [i \in 1..Len(leaves) |-> buckets[LocOf(blobs[f])][leaves[i]].data]

\* C4 (List): a List that returns reports no error and returns exactly the
\* payloads of the leaf keys under the directory, at any depth, one per key
\* in ascending order of key; directory markers contribute nothing.
C4_ListPayloads ==
    \A f \in DOMAIN blobs, dir \in DirPaths :
        LET r == List(blobs[f], buckets, dir)
        IN  r.err # Panic => r = [val |-> LeafPayloads(f, dir), err |-> NoErr]

----------------------------------------------------------------------------
(* C5 *)

\* The number of slashes among the first i characters of a key.
Level(rel, i) == Cardinality({j \in 1..i : rel[j] = Slash})

\* The directories under a directory of facade f down to a level, named
\* relative to the directory: every part of a key under it that ends in a
\* slash.  Level 1 is the direct children; level 0 stands for no limit.
DirsUnder(f, dir, maxLevel) ==
    LET E == EffectivePrefix(blobs[f], dir)
        rels == {Drop(k, Len(E)) : k \in KeysUnder(f, dir)}
    IN  UNION {{SubSeq(rel, 1, i) : i \in {j \in 1..Len(rel) :
                    /\ rel[j] = Slash
                    /\ maxLevel = 0 \/ Level(rel, j) <= maxLevel}} : rel \in rels}

\* The level a depth argument asks for.
LevelOf(depth) ==
    IF depth = <<>> THEN 1 ELSE IF depth[1] < 0 THEN 0 ELSE depth[1] + 1

\* C5 (ListDirN): for the root and for every other directory, a ListDirN that
\* returns reports the directories under the directory down to the depth
\* asked for (direct children for 0 or no depth, grandchildren too for 1,
\* the whole subtree for a negative depth), each once and no file key; the
\* names are relative to the directory or carry it in front.
C5_ListDirN ==
    \A f \in DOMAIN blobs, dir \in DirPaths, depth \in Depths :
        LET r == ListDirN(blobs[f], buckets, dir, depth)
            want == DirsUnder(f, dir, LevelOf(depth))
        IN  r.err # Panic =>
                /\ r.err = NoErr
                /\ Len(r.val) = Cardinality(Range(r.val))
                /\ \/ Range(r.val) = want
                   \/ Range(r.val) = {dir \o <<Slash>> \o d : d \in want}

\* C5 at the root alone, where the listing prefix is empty: what the code
\* does deliver.
C5_ListDirNRoot ==
    \A f \in DOMAIN blobs, depth \in Depths :
        LET r == ListDirN(blobs[f], buckets, <<>>, depth)
        IN  r.err # Panic =>
                /\ r.err = NoErr
                /\ Len(r.val) = Cardinality(Range(r.val))
                /\ Range(r.val) = DirsUnder(f, <<>>, LevelOf(depth))

----------------------------------------------------------------------------
(* C6 *)

\* What facade f is answered by Exists, Get, List and ListDirN, over the
\* paths a caller passes.
Observed(f) ==
    [files |-> [p \in IsoFilePaths |->
                   <<Exists(blobs[f], buckets, p), Get(blobs[f], buckets, p)>>],
     lists |-> [dir \in IsoDirPaths |-> List(blobs[f], buckets, dir)],
     dirs |-> [dir \in IsoDirPaths |->
                  [depth \in Depths |-> ListDirN(blobs[f], buckets, dir, depth)]]]

\* The step is a call of facade f that returned.
StepOf(f) == Alive /\ last'.f = f /\ last'.err # Panic

\* C6 (prefix-scoping isolation): of two facades on one bucket with the
\* prefixes "a" and "b", no call of one, whatever path the caller passes,
\* changes what Exists, Get, List and ListDirN answer the other.
C6_Isolation ==
    [][/\ StepOf("A") => Observed("B")' = Observed("B")
       /\ StepOf("B") => Observed("A")' = Observed("A")]_vars

----------------------------------------------------------------------------
(* C7 *)

\* The step is a Delete(p, false) call of facade f that returned.
DeleteFileStep(f, p) ==
    /\ last' = [Idle EXCEPT !.op = "Delete", !.f = f, !.path = p, !.err = last'.err,
                            !.made = last'.made, !.gone = last'.gone,
                            !.handles = last'.handles]
    /\ last'.err # Panic
    /\ Alive

\* No key other than the path's is touched: those that were in the stores
\* are there with the same content, and no key has come.  The path's key is
\* gone when the call returned no error, and untouched when it returned one.
DeleteFileFrame(f, p) ==
    LET loc == LocOf(blobs[f])
        key == KeyOf(blobs[f], p)
    IN  /\ \A l \in DOMAIN buckets :
               /\ DOMAIN buckets'[l] \subseteq DOMAIN buckets[l]
               /\ \A k \in DOMAIN buckets[l] :
                      <<l, k>> # <<loc, key>> =>
                          k \in DOMAIN buckets'[l] /\ buckets'[l][k] = buckets[l][k]
        /\ last'.err = NoErr => key \in DOMAIN buckets[loc] /\ key \notin DOMAIN buckets'[loc]
        /\ last'.err # NoErr => buckets' = buckets

\* C7 (Delete(p, false) deletes exactly one leaf key): over every step that
\* is a Delete(p, false) call that returns, every other key of the store,
\* the siblings in p's directory among them, exists afterwards with the
\* content it had before the call.
C7_DeleteFrame ==
    [][\A f \in DOMAIN blobs, p \in FilePaths \cup IsoFilePaths :
           DeleteFileStep(f, p) => DeleteFileFrame(f, p)]_vars

\* A Delete(p, false) returned no error and removed a key while a sibling
\* key of the same directory is in the store.
C7_Witness ==
    /\ Returned("Delete") /\ ~last.isDir /\ last.err = NoErr
    /\ last.gone # {}
    /\ \E q \in FilePaths :
           /\ q # last.path
           /\ PathSplit(q)[1] = PathSplit(last.path)[1]
           /\ Present(last.f, q)

----------------------------------------------------------------------------
(* C8 *)

\* The root listing ListDirN("", 0) of the marker's facade holds the
\* marker's path with a slash after it.
InRootListing(m) ==
    LET r == ListDirN(blobs[m.f], buckets, <<>>, <<0>>)
    IN  r.err = NoErr /\ (m.path \o <<Slash>>) \in Range(r.val)

----------------------------------------------------------------------------
(* C9 *)

\* The key C9 names: path inside the facade's key space, with one slash
\* after it.
MarkerKey(b, path) ==
    EffectivePrefix(b, <<>>) \o (IF HasSuffix(path, <<Slash>>) THEN path ELSE path \o <<Slash>>)

\* C9 (SetPathAsDir creates one zero-byte object at path + "/"): after a
\* SetPathAsDir(path) that returned no error the object at path + "/" in the
\* facade's key space is in the store with zero bytes, the call created no
\* object under another key, and ListDirN at unbounded depth reports no
\* directory but path and its ancestors.
C9_MarkerKey ==
    Returned("SetPathAsDir") /\ last.err = NoErr =>
        LET b == blobs[last.f]
            loc == LocOf(b)
            key == MarkerKey(b, last.path)
        IN  /\ key \in DOMAIN buckets[loc]
            /\ buckets[loc][key].data = <<>>
            /\ last.made \subseteq {<<loc, key>>}
            /\ last.gone = {}
            /\ \A d \in Range(ListDirN(b, buckets, <<>>, <<-1>>).val) :
                   \/ HasPrefix(key, EffectivePrefix(b, <<>>) \o d)
                   \/ \E k \in DOMAIN buckets[loc] :
                          /\ <<loc, k>> \notin last.made
                          /\ HasPrefix(k, EffectivePrefix(b, <<>>) \o d)

----------------------------------------------------------------------------
(* C10 *)

\* The object lies in a sub-directory of the directory of facade f: a slash
\* follows in its key after the directory's prefix.
Nested(f, dir, o) ==
    /\ o[1] = LocOf(blobs[f])
    /\ HasPrefix(o[2], EffectivePrefix(blobs[f], dir))
    /\ \E i \in (Len(EffectivePrefix(blobs[f], dir)) + 1)..(Len(o[2]) - 1) : o[2][i] = Slash

\* C10 as stated (only the one-level listing is deleted): a Delete(path,
\* true) removes no key that lies in a sub-directory of path.
C10_OnlyImmediate ==
    Returned("Delete") /\ last.isDir =>
        \A o \in last.gone : ~Nested(last.f, last.path, o)

\* C10 (the flat listing is deleted): a Delete(path, true) that returns
\* has deleted every key under path, those in nested sub-directories too:
\* it reports no error, no key under path is left, and every key it removed
\* lay under path.
C10_DeleteSubtree ==
    Returned("Delete") /\ last.isDir =>
        /\ last.err = NoErr
        /\ KeysUnder(last.f, last.path) = {}
        /\ last.made = {}
        /\ \A o \in last.gone :
               /\ o[1] = LocOf(blobs[last.f])
               /\ HasPrefix(o[2], EffectivePrefix(blobs[last.f], last.path))

\* A Delete(path, true) returned no error and removed a key of a nested
\* sub-directory of path.
C10_Witness ==
    /\ Returned("Delete") /\ last.isDir /\ last.err = NoErr
    /\ \E o \in last.gone : Nested(last.f, last.path, o)

----------------------------------------------------------------------------
(* C11 *)

\* The path lies under the directory, given with or without a slash at its
\* end; every path lies under the root "".
PathUnder(p, dir) ==
    dir = <<>> \/ HasPrefix(p, TrimSuffix(dir) \o <<Slash>>)

\* C11 (directory cleanup): directly after a Delete(dir, true) that returned
\* no error, for dir the root, a directory or a directory with a slash at
\* its end, Exists is false for every path under dir and List(dir) returns
\* no payload and no error.
C11_Cleanup ==
    Returned("Delete") /\ last.isDir /\ last.err = NoErr =>
        /\ \A p \in FilePaths :
               PathUnder(p, last.path) =>
                   Exists(blobs[last.f], buckets, p) = [val |-> FALSE, err |-> NoErr]
        /\ List(blobs[last.f], buckets, last.path) = [val |-> <<>>, err |-> NoErr]

\* A Delete("d/", true), the directory given with a slash at its end, has
\* returned no error and removed two uploaded leaf objects.
C11_Witness ==
    /\ Returned("Delete") /\ last.isDir /\ last.err = NoErr
    /\ last.path = <<"d", Slash>>
    /\ Cardinality(last.gone) = 2
    /\ \A o \in last.gone : o[2][Len(o[2])] # Slash

----------------------------------------------------------------------------
(* C12 *)

\* The entries a Delete(dir, true) on record has enumerated in all, those
\* it came to before the iterator failed, and those of them whose delete
\* failed.
Enumerated == 1..(Cardinality(last.gone) + Cardinality(KeysUnder(last.f, last.path)))
Attempted == {i \in Enumerated : last.faults.failAt = 0 \/ i < last.faults.failAt}
FailedDeletes == Attempted \cap last.faults.denied

\* C12 (aggregate error): a Delete(path, true) that returns has deleted
\* every entry it came to whose delete did not fail, and its error holds
\* every failure of a delete that occurred, also when the enumeration
\* failed afterwards; it is nil when nothing failed.
C12_Aggregate ==
    Returned("Delete") /\ last.isDir =>
        /\ Cardinality(last.gone) = Cardinality(Attempted \ last.faults.denied)
        /\ FailedDeletes # {} =>
               /\ last.err.kind = "aggregate"
               /\ Len(last.err.errs) >= Cardinality(FailedDeletes)
        /\ FailedDeletes = {} /\ last.faults.failAt \notin Enumerated \cup {Cardinality(Enumerated) + 1} =>
               last.err = NoErr

\* C12 while the enumeration does not fail: what the code does deliver.
C12_AggregateNoIterFault ==
    Returned("Delete") /\ last.isDir /\ last.faults.failAt = 0 =>
        /\ Cardinality(last.gone) = Cardinality(Attempted \ last.faults.denied)
        /\ last.err = NewAggregate([i \in 1..Cardinality(FailedDeletes) |-> "PermissionDenied"])

----------------------------------------------------------------------------
(* C13 *)

\* The kinds of variant a descriptor can hold, and the descriptor that
\* holds one variant of kind k only.
Kinds ==
    {ProviderS3, ProviderGCS, ProviderAzure, ProviderLocal, ProviderSwift,
     ProviderB2, ProviderRest}
OnlyVariant(k) ==
    [EmptyBackend EXCEPT
        !.S3 = IF k = ProviderS3 THEN S3Backend(<<>>).S3 ELSE Nil,
        !.GCS = IF k = ProviderGCS THEN GCSBackend(<<>>).GCS ELSE Nil,
        !.Azure = IF k = ProviderAzure THEN AzureBackend(<<>>).Azure ELSE Nil,
        !.Local = IF k = ProviderLocal THEN LocalBackend.Local ELSE Nil,
        !.Swift = IF k = ProviderSwift THEN Some([Container |-> "c"]) ELSE Nil,
        !.B2 = IF k = ProviderB2 THEN Some([Bucket |-> "c"]) ELSE Nil,
        !.Rest = IF k = ProviderRest THEN Some([URL |-> "u"]) ELSE Nil]

\* A NewBlob call for the facade named f has returned.
Built(f) == last.op = "NewBlob" /\ last.f = f

\* C13 (provider resolution): Provider returns the kind of a descriptor
\* with exactly one variant and fails on one with none or with two; a
\* NewBlob on a descriptor Provider fails on returns that failure and no
\* facade, also when the descriptor names a secret the client cannot
\* resolve, so no secret was fetched before.
C13_ProviderResolution ==
    /\ \A k \in Kinds : Provider(OnlyVariant(k)) = [val |-> k, err |-> NoErr]
    /\ \A f \in DOMAIN NewCases :
           /\ Provider(NewCases[f]).err = NoErr <=> Cardinality(Populated(NewCases[f])) = 1
           /\ Built(f) /\ Cardinality(Populated(NewCases[f])) # 1 =>
                  /\ last.err = Provider(NewCases[f]).err
                  /\ last.err # NoErr
                  /\ last.err # getStorageSecret(ClusterNew, "db",
                                                 NewCases[f].StorageSecretName).err
                  /\ f \notin DOMAIN blobs

C13_Witness ==
    /\ Built("N2") /\ last.err = Err("unknown provider")
    /\ Cardinality(Populated(NewCases["N2"])) = 2
    /\ DOMAIN blobs # {}

----------------------------------------------------------------------------
(* C14 *)

\* C14 (descriptor kept): every facade NewBlob has returned holds the
\* descriptor it was built from, so that the provider resolution of an
\* open succeeds, and a GCS, Azure or Local facade is opened at the
\* connection string built at its construction.
C14_HoldsDescriptor ==
    \A f \in DOMAIN blobs :
        /\ blobs[f].bConfig = Some(NewCases[f])
        /\ openBucket(blobs[f], <<>>).err = NoErr
        /\ Provider(NewCases[f]).val # ProviderS3 =>
               openBucket(blobs[f], <<>>).h.loc = blobs[f].storageURL

----------------------------------------------------------------------------
(* C15 *)

\* C15 (no partial configuration): a NewBlob that fails because the
\* secret lacks a credential field (the GCS JSON key, the Azure account
\* name or key) leaves the environment variables and the credential file
\* of the process exactly as they were before the call.
C15_NoPartialConfiguration ==
    [][last'.op = "NewBlob" /\ last'.err.kind = "config" => env' = env]_vars

\* C15 for the GCS JSON key and the Azure account key alone: what the
\* code does deliver.
C15_FirstFieldAbsent ==
    [][/\ last'.op = "NewBlob"
       /\ last'.err \in {ErrMsg("config", <<"storage secret missing", googleServiceAccountJsonKey>>),
                         ErrMsg("config", <<"storage secret missing", azureAccountKey>>)}
       => env' = env]_vars

----------------------------------------------------------------------------
(* C16 *)

\* The operations of the facade.
Operations == {"Exists", "Get", "Upload", "List", "ListDirN", "Delete", "SetPathAsDir"}

\* The facade is an S3 one whose secret lacks the key.
LacksKey(b, key) ==
    /\ b.bConfig # Nil /\ b.bConfig[1].S3 # Nil
    /\ b.secret # Nil /\ ~HasData(b.secret[1], key)

\* C16 (missing S3 key): every operation of an S3 facade whose secret
\* lacks the access-key id or the secret access key returns a configuration
\* error that names the missing key and the secret's namespace and name,
\* has opened no bucket, and leaves the stores as they were.
C16_MissingKey ==
    \A key \in {awsAccessKeyId, awsSecretAccessKey} :
        last.op \in Operations /\ LacksKey(blobs[last.f], key) =>
            /\ last.err.kind = "config"
            /\ {blobs[last.f].secret[1].Namespace, blobs[last.f].secret[1].Name,
                "missing", key} \subseteq Range(last.err.detail)
            /\ last.handles.opened = 0
            /\ last.made = {} /\ last.gone = {}
            /\ Objects(buckets) = {}

C16_Witness ==
    /\ last.op = "Upload" /\ LacksKey(blobs[last.f], awsSecretAccessKey)
    /\ last.err = ErrMsg("config", <<"storage Secret", "db", "s3-no-key",
                                     "missing", awsSecretAccessKey>>)

----------------------------------------------------------------------------
(* C17 *)

\* What an open of facade f resolves: the provider, the prefix and the
\* credentials.
Resolved(f) ==
    [provider |-> IF blobs[f].bConfig = Nil THEN Panic ELSE Provider(blobs[f].bConfig[1]),
     prefix |-> blobs[f].prefix,
     credentials |-> OpenCredentials(blobs[f], env)]

----------------------------------------------------------------------------
(* C18 *)

\* C18 (Local needs no credentials): a NewBlob on a descriptor whose only
\* variant is Local returns a facade and no error, whatever secret name
\* the descriptor holds and whether or not the client can resolve it.
C18_LocalNeedsNoSecret ==
    \A f \in DOMAIN NewCases :
        Built(f) /\ Populated(NewCases[f]) = {ProviderLocal} =>
            last.err = NoErr /\ f \in DOMAIN blobs

----------------------------------------------------------------------------
(* C19 *)

\* C19 (handle scoping): a call that returns has closed every handle it
\* opened, so that it leaves no handle open.
C19_HandlesClosed ==
    last.op \in Operations \cup {"Debug"} /\ last.err # Panic =>
        last.handles.closed = last.handles.opened

\* C19 for the operations other than SetPathAsDir: what the code does
\* deliver.
C19_DeferredClose ==
    last.op \in (Operations \cup {"Debug"}) \ {"SetPathAsDir"} /\ last.err # Panic =>
        last.handles.closed = last.handles.opened

----------------------------------------------------------------------------
(* C20 *)

\* The credentials of the secret the descriptor of facade f names.
ConstructedCredentials(f) ==
    LET secret == getStorageSecret(ClusterNew, "db", NewCases[f].StorageSecretName).secret[1]
    IN  IF NewCases[f].GCS # Nil THEN <<DataOf(secret, googleServiceAccountJsonKey)>>
        ELSE <<DataOf(secret, azureAccountName), DataOf(secret, azureAccountKey)>>

\* C20 (serialized constructions): when the facades are built one after
\* another, an operation of a GCS or Azure facade that returns has opened
\* its bucket with the credentials of the secret the facade was built
\* with, whichever facade was built last.
C20_OwnCredentials ==
    last.op \in Operations /\ last.err # Panic
        /\ Populated(NewCases[last.f]) \subseteq {ProviderGCS, ProviderAzure} =>
            OpenCredentials(blobs[last.f], env) = ConstructedCredentials(last.f)

----------------------------------------------------------------------------
(* C21 *)

\* The key of the path on record and the store of its facade.
LastKey == KeyOf(blobs[last.f], last.path)
LastStore == buckets[LocOf(blobs[last.f])]
LastObject == <<LocOf(blobs[last.f]), LastKey>>

\* C21 (prefix virtualization): a call on a path split at its last "/"
\* into dir and leaf touches the physical key E + leaf, where E is
\* trim(join(prefix, dir), "/") + "/", and the key leaf when the join trims
\* to nothing: Upload writes that key and no other, Delete removes it,
\* Exists and Get answer for it, Debug leaves no other key changed; every
\* key ListDirN returns is relative to the E of its directory.
C21_PrefixVirtualization ==
    /\ Returned("Upload") /\ last.err = NoErr =>
           /\ last.made \subseteq {LastObject} /\ last.gone = {}
           /\ LastKey \in DOMAIN LastStore /\ LastStore[LastKey].data = last.data
    /\ Returned("Delete") /\ ~last.isDir =>
           /\ last.made = {}
           /\ last.gone = IF last.err = NoErr THEN {LastObject} ELSE {}
           /\ LastKey \notin DOMAIN LastStore
    /\ Returned("Exists") => last.ok = (LastKey \in DOMAIN LastStore) /\ last.err = NoErr
    /\ Returned("Get") =>
           IF LastKey \in DOMAIN LastStore
           THEN last.err = NoErr /\ last.bytes = LastStore[LastKey].data
           ELSE last.err = NotFound
    /\ Returned("Debug") => last.made = {} /\ last.gone \subseteq {LastObject}
    /\ Returned("ListDirN") /\ last.err = NoErr =>
           \A i \in 1..Len(last.list) :
               \E k \in DOMAIN LastStore :
                   HasPrefix(k, EffectivePrefix(blobs[last.f], last.path) \o last.list[i])

\* An Upload to "/f" through a facade with the empty prefix wrote the key
\* "f" of the raw bucket.
C21_Witness ==
    /\ Returned("Upload") /\ last.err = NoErr
    /\ blobs[last.f].prefix = <<>> /\ last.path = <<"/", "f">>
    /\ last.made = {<<LocOf(blobs[last.f]), <<"f">>>>}

\* An Upload to "d/f" through a facade with the prefix "/a/" wrote the key
\* "a/d/f".
C21_WitnessTrimmed ==
    /\ Returned("Upload") /\ last.err = NoErr
    /\ blobs[last.f].prefix = <<"/", "a", "/">> /\ last.path = <<"d", "/", "f">>
    /\ last.made = {<<LocOf(blobs[last.f]), <<"a", "/", "d", "/", "f">>>>}

----------------------------------------------------------------------------
(* C22 *)

\* C22 (Upload's errors): an Upload that opened its writer has closed it,
\* also when the write failed; it returns the error of the write when the
\* write failed, whether or not the close failed too, otherwise the error
\* of the close when the close failed, otherwise nil.
C22_UploadErrors ==
    Returned("Upload") /\ last.writer.opened = 1 =>
        /\ last.writer.closed = 1
        /\ last.io.write => last.err = writeErr
        /\ ~last.io.write /\ last.io.wclose => last.err = closeErr
        /\ ~last.io.write /\ ~last.io.wclose => last.err = NoErr
        /\ last.err = NoErr => ~last.io.write /\ ~last.io.wclose

\* An Upload whose write and close both failed returned the error of the
\* write, with its writer closed.
C22_Witness ==
    /\ Returned("Upload") /\ last.writer = [opened |-> 1, closed |-> 1]
    /\ last.io.write /\ last.io.wclose
    /\ last.err = writeErr

----------------------------------------------------------------------------
(* C23 *)

\* The load options of the open of the call on record.
LastOptions == Range(getS3Config(blobs[last.f], FALSE).cfg)
LastS3 == NewCases[last.f].S3[1]

\* C23 (region and endpoint overrides): an open of an S3 facade passes the
\* descriptor's region as an override exactly when it is not empty, and
\* the descriptor's endpoint exactly when it is not empty, whether or not
\* the facade holds a secret.
C23_Overrides ==
    last.op \in Operations /\ last.err # Panic /\ NewCases[last.f].S3 # Nil =>
        /\ LastS3.Region # "" <=> <<"WithRegion", LastS3.Region>> \in LastOptions
        /\ LastS3.Endpoint # "" <=> <<"WithBaseEndpoint", LastS3.Endpoint>> \in LastOptions

\* C23 for the region, and for the endpoint of a facade that holds a
\* secret: what the code does deliver.
C23_OverridesWithSecret ==
    last.op \in Operations /\ last.err # Panic /\ NewCases[last.f].S3 # Nil =>
        /\ LastS3.Region # "" <=> <<"WithRegion", LastS3.Region>> \in LastOptions
        /\ blobs[last.f].secret # Nil =>
               (LastS3.Endpoint # "" <=> <<"WithBaseEndpoint", LastS3.Endpoint>> \in LastOptions)

----------------------------------------------------------------------------
(* C24 *)

\* The faults of the call on record but for those of the closes of the
\* handle and of the reader.
ClosesSucceed(io) == [io EXCEPT !.hclose = FALSE, !.rclose = FALSE]

\* C24 (cleanup failures): a call whose handle's close fails, or, in Get,
\* whose reader's close fails, returns the value and the error, and leaves
\* the stores, as the same call does when the closes succeed; the failure
\* is in the log.
C24_CleanupOnlyLogged ==
    [][/\ last'.op = "Exists" =>
              /\ [val |-> last'.ok, err |-> last'.err] = Exists(blobs[last'.f], buckets, last'.path)
              /\ buckets' = buckets
       /\ last'.op = "Get" =>
              /\ [val |-> last'.bytes, err |-> last'.err] = Get(blobs[last'.f], buckets, last'.path)
              /\ buckets' = buckets
              /\ last'.io.rclose /\ last'.err = NoErr => "failed to close reader" \in Range(last'.log)
       /\ last'.op = "List" =>
              /\ [val |-> last'.list, err |-> last'.err] = List(blobs[last'.f], buckets, last'.path)
              /\ buckets' = buckets
       /\ last'.op = "ListDirN" =>
              /\ [val |-> last'.list, err |-> last'.err] =
                     ListDirN(blobs[last'.f], buckets, last'.path, last'.depth)
              /\ buckets' = buckets
       /\ last'.op = "Delete" =>
              [bs |-> buckets', err |-> last'.err] =
                  Delete(blobs[last'.f], buckets, last'.path, last'.isDir)
       /\ last'.op = "Upload" =>
              \E r \in {UploadWith(blobs[last'.f], buckets, last'.path, last'.data, "",
                                   ClosesSucceed(last'.io))} :
                  buckets' = r.bs /\ last'.err = r.err
       /\ last'.op = "Debug" =>
              \E r \in {DebugWith(blobs[last'.f], buckets, last'.path, last'.data, "",
                                  ClosesSucceed(last'.io))} :
                  buckets' = r.bs /\ last'.err = r.err
       /\ last'.op # "NewBlob" /\ last'.io.hclose /\ last'.handles.closed > 0 =>
              "failed to close bucket" \in Range(last'.log)]_vars

\* A Get whose reader and handle both failed to close returned the bytes
\* and no error.
C24_Witness ==
    /\ Returned("Get") /\ last.io.rclose /\ last.io.hclose
    /\ last.err = NoErr /\ last.bytes = <<1>>
    /\ last.log = <<"failed to close reader", "failed to close bucket">>

----------------------------------------------------------------------------
(* C25 *)

\* C25 (read-only operations): an Exists, Get, List or ListDirN, whether it
\* returns a result or an error, leaves every store with the keys and the
\* contents it had before the call.
C25_ReadOnlyOperations ==
    [][last'.op \in {"Exists", "Get", "List", "ListDirN"} => buckets' = buckets]_vars

\* A List returned the payloads of two objects that are still in the store.
C25_Witness ==
    /\ Returned("List") /\ last.err = NoErr /\ Len(last.list) = 2
    /\ Cardinality(KeysUnder(last.f, last.path)) = 2

----------------------------------------------------------------------------
(* C26 *)

\* The object of the path of the call that has just returned.
NextObject == <<LocOf(blobs[last'.f]), KeyOf(blobs[last'.f], last'.path)>>

\* C26 (Debug): a Debug that returns nil has deleted the key it wrote,
\* which is then not in the store, whether or not an object was there
\* before, and has left every other key as it was; a Debug whose write or
\* whose writer's close fails returns that error and does not come to the
\* delete.
C26_DebugLeavesNothing ==
    [][last'.op = "Debug" /\ last'.err # Panic =>
           /\ last'.err = NoErr =>
                  /\ last'.deleted
                  /\ NextObject \notin Objects(buckets')
                  /\ Objects(buckets') = Objects(buckets) \ {NextObject}
                  /\ \A o \in Objects(buckets') : buckets'[o[1]][o[2]] = buckets[o[1]][o[2]]
           /\ last'.io.write => last'.err = writeErr /\ ~last'.deleted
           /\ ~last'.io.write /\ last'.io.wclose => last'.err = closeErr /\ ~last'.deleted]_vars

\* A Debug returned nil on a path that held an object: the object is gone,
\* and another one is in the store.
C26_Witness ==
    /\ Returned("Debug") /\ last.err = NoErr /\ last.deleted
    /\ last.gone = {LastObject}
    /\ Objects(buckets) # {}

\* A Debug whose write failed returned that error with the object stored
\* and not deleted.
C26_WitnessFailedWrite ==
    /\ Returned("Debug") /\ last.err = writeErr /\ ~last.deleted
    /\ last.made = {LastObject}

====
